---- MODULE Spec2Model ----
(***************************************************************************)
(* kitty/borders.py: the Borders object computes the padding and border    *)
(* rectangles of a tab (Borders.__call__, the producer thread) and hands   *)
(* them, under self.lock, to the render thread (Borders.render).           *)
(*                                                                         *)
(* Numbers: the clip-space coordinates are Python floats.  They are        *)
(* modelled as exact rationals <<numerator, denominator>> in lowest terms  *)
(* with a positive denominator; the colour index, an int that the GLfloat  *)
(* array stores as a float, is the rational <<c, 1>>.                      *)
(***************************************************************************)
EXTENDS Integers, Sequences, FiniteSets, TLC

(***************************************************************************)
(* Bounds of the model.                                                    *)
(***************************************************************************)
\* window edges are device pixels in 0..MaxCoord
MaxCoord == 2
\* a call passes at most MaxWindows windows
MaxWindows == 2
\* self.border_width is in 0..MaxBorderWidth
MaxBorderWidth == 1
\* the concurrent specification lays out at most MaxColumns windows per call
MaxColumns == 1

(***************************************************************************)
(* Rational arithmetic for the float expressions of to_opengl.             *)
(***************************************************************************)
Abs(n) == IF n < 0 THEN -n ELSE n

RECURSIVE GCD(_, _)
GCD(a, b) == IF b = 0 THEN a ELSE GCD(b, a % b)

\* n/d in lowest terms, d > 0
Rat(n, d) == LET g == GCD(Abs(n), d) IN <<n \div g, d \div g>>

FromInt(n) == <<n, 1>>

RatAdd(p, q) == Rat(p[1] * q[2] + q[1] * p[2], p[2] * q[2])

RatSub(p, q) == Rat(p[1] * q[2] - q[1] * p[2], p[2] * q[2])

(***************************************************************************)
(* Values.                                                                 *)
(***************************************************************************)
\* w.geometry of a window: left < right and top < bottom, in device pixels
Geometries(c) ==
    { [left |-> l, top |-> t, right |-> r, bottom |-> b] :
        l \in 0..c, t \in 0..c, r \in 0..c, b \in 0..c }

Overlap(g, h) ==
    /\ g.left < h.right /\ h.left < g.right
    /\ g.top < h.bottom /\ h.top < g.bottom

\* g comes before h in reading order: higher up, or level and further left
Before(g, h) == g.top < h.top \/ (g.top = h.top /\ g.left < h.left)

\* the window lists a caller passes: proper rectangles that do not overlap,
\* listed in reading order
WindowLists(n, c) ==
    LET G == { g \in Geometries(c) : g.left < g.right /\ g.top < g.bottom }
    IN  UNION { { ws \in [1..k -> G] :
                    \A i \in 1..k : \A j \in 1..k :
                        i < j => ~Overlap(ws[i], ws[j]) /\ Before(ws[i], ws[j]) }
                : k \in 0..n }

\* k windows side by side, one pixel wide, over the full height
Columns(k) ==
    [i \in 1..k |-> [left |-> i - 1, top |-> 0, right |-> i, bottom |-> MaxCoord]]

\* The arguments of Borders.__call__.  A window is identified by its place in
\* the list: active_window = 0 is None, k in 1..Len(windows) is windows[k],
\* Len(windows) + 1 is a window that is not in the list.
CallArgs(lists) ==
    UNION { [windows : {ws}, active_window : 0..(Len(ws) + 1),
             draw_window_borders : BOOLEAN] : ws \in lists }

NoArgs == [windows |-> <<>>, active_window |-> 0, draw_window_borders |-> TRUE]

\* constants.viewport_size
ViewportSizes == [width : MaxCoord..(MaxCoord + 1), height : {MaxCoord}]

NoEdges == [vw |-> 0, vh |-> 0, left_edge |-> 0, right_edge |-> 0,
            top_edge |-> 0, bottom_edge |-> 0]

NoDraw == [starts |-> <<>>, counts |-> <<>>, n |-> -1]

Attributes == {"num_of_rects", "rects", "starts", "counts"}

\* self.color_buf: background, active_border_color, inactive_border_color
color_buf == <<"background", "active_border_color", "inactive_border_color">>

VARIABLES
    viewport_size,   \* constants.viewport_size, read by to_opengl and __call__
    border_width,    \* self.border_width
    lock,            \* self.lock: "free", or the thread that holds it
    is_dirty,        \* self.is_dirty
    can_render,      \* self.can_render
    attrs,           \* the frame attributes that exist on self
    num_of_rects,    \* self.num_of_rects
    rects,           \* self.rects   (GLfloat array)
    starts,          \* self.starts  (GLint array)
    counts,          \* self.counts  (GLuint array)
    pc_u,            \* position of the thread inside Borders.__call__
    args,            \* its arguments
    edges,           \* its locals vw, vh, left_edge, right_edge, top_edge, bottom_edge
    l_rects,         \* its local list rects
    n_padding,       \* rectangles in l_rects when line 95 is reached
    completed,       \* the list rects of the last call that returned
    pc_r,            \* position of the thread inside Borders.render
    r_entry,         \* is_dirty, can_render and pending when render took the lock
    r_trace,         \* the GPU calls of the current (or last) render call
    gpu_rects,       \* the vertex buffer, as last sent by send_data
    gpu_colors,      \* the colors uniform, as last set by set_colors
    drawn,           \* the arguments of the render call's glMultiDrawArrays
    uploads,         \* send_data calls since the last update returned (at most 2)
    pending          \* updates returned since the last send_data (at most 2)

vars == <<viewport_size, border_width, lock, is_dirty, can_render, attrs,
          num_of_rects, rects, starts, counts, pc_u, args, edges, l_rects,
          n_padding, completed, pc_r, r_entry, r_trace, gpu_rects, gpu_colors,
          drawn, uploads, pending>>

frame_vars == <<num_of_rects, rects, starts, counts, attrs>>
flag_vars == <<is_dirty, can_render>>
env_vars == <<viewport_size, border_width>>
update_vars == <<pc_u, args, edges, l_rects, n_padding, completed>>
render_vars == <<pc_r, r_entry, r_trace, gpu_rects, gpu_colors, drawn>>

(***************************************************************************)
(* The pure functions.                                                     *)
(***************************************************************************)
\* layout.available_height(): the height of the viewport
available_height == viewport_size.height

\* a mapping that keeps the y axis pointing down
to_opengl_unflipped(x, y) ==
    << RatAdd(FromInt(-1), Rat(2 * x, viewport_size.width)),
       RatAdd(FromInt(-1), Rat(2 * y, viewport_size.height)) >>

to_opengl(x, y) ==
    << RatAdd(FromInt(-1), Rat(2 * x, viewport_size.width)),
       RatSub(FromInt(1), Rat(2 * y, viewport_size.height)) >>

Vertex(x, y, color) ==
    LET p == to_opengl(x, y) IN << p[1], p[2], FromInt(color) >>

\* a rectangle emitter that leaves out the last corner
as_triangle(left, top, right, bottom, color) ==
    Vertex(right, top, color) \o Vertex(right, bottom, color)
        \o Vertex(left, bottom, color)

\* the corners visited across the diagonal
as_bowtie(left, top, right, bottom, color) ==
    Vertex(right, top, color) \o Vertex(left, bottom, color)
        \o Vertex(right, bottom, color) \o Vertex(left, top, color)

as_rect(left, top, right, bottom, color) ==
    Vertex(right, top, color) \o Vertex(right, bottom, color)
        \o Vertex(left, bottom, color) \o Vertex(left, top, color)

Min(S) == CHOOSE m \in S : \A x \in S : m <= x
Max(S) == CHOOSE m \in S : \A x \in S : x <= m

(***************************************************************************)
(* Borders.__call__, lines 75-116.                                         *)
(***************************************************************************)
\* a bounding box taken from the first window alone
ComputeEdgesFirstWindow(windows) ==
    LET vw == viewport_size.width
        vh == available_height
    IN  IF windows # <<>>
        THEN [vw |-> vw, vh |-> vh,
              left_edge   |-> windows[1].left,
              right_edge  |-> windows[1].right,
              top_edge    |-> windows[1].top,
              bottom_edge |-> windows[1].bottom]
        ELSE [vw |-> vw, vh |-> vh,
              left_edge |-> 0, right_edge |-> vw,
              top_edge |-> 0, bottom_edge |-> vh]

\* a bounding box that is the origin when there are no windows
ComputeEdgesDegenerate(windows) ==
    LET vw == viewport_size.width
        vh == available_height
        W  == { windows[i] : i \in 1..Len(windows) }
    IN  IF windows # <<>>
        THEN [vw |-> vw, vh |-> vh,
              left_edge   |-> Min({ w.left : w \in W }),
              right_edge  |-> Max({ w.right : w \in W }),
              top_edge    |-> Min({ w.top : w \in W }),
              bottom_edge |-> Max({ w.bottom : w \in W })]
        ELSE [vw |-> vw, vh |-> vh,
              left_edge |-> 0, right_edge |-> 0,
              top_edge |-> 0, bottom_edge |-> 0]

\* lines 76-85: vw, vh and the bounding box of the windows
ComputeEdges(windows) ==
    LET vw == viewport_size.width
        vh == available_height
        W  == { windows[i] : i \in 1..Len(windows) }
    IN  IF windows # <<>>
        THEN [vw |-> vw, vh |-> vh,
              left_edge   |-> Min({ w.left : w \in W }),
              right_edge  |-> Max({ w.right : w \in W }),
              top_edge    |-> Min({ w.top : w \in W }),
              bottom_edge |-> Max({ w.bottom : w \in W })]
        ELSE [vw |-> vw, vh |-> vh,
              left_edge |-> 0, right_edge |-> vw,
              top_edge |-> 0, bottom_edge |-> vh]

\* padding tests that also hold when the box touches the viewport's edge
PaddingRectsNonStrict(e) ==
    (IF e.left_edge >= 0 THEN as_rect(0, 0, e.left_edge, e.vh, 0) ELSE <<>>)
    \o (IF e.top_edge >= 0 THEN as_rect(0, 0, e.vw, e.top_edge, 0) ELSE <<>>)
    \o (IF e.right_edge <= e.vw THEN as_rect(e.right_edge, 0, e.vw, e.vh, 0) ELSE <<>>)
    \o (IF e.bottom_edge <= e.vh THEN as_rect(0, e.bottom_edge, e.vw, e.vh, 0) ELSE <<>>)

\* lines 86-94: the padding rectangles, colour 0
PaddingRects(e) ==
    (IF e.left_edge > 0 THEN as_rect(0, 0, e.left_edge, e.vh, 0) ELSE <<>>)
    \o (IF e.top_edge > 0 THEN as_rect(0, 0, e.vw, e.top_edge, 0) ELSE <<>>)
    \o (IF e.right_edge < e.vw THEN as_rect(e.right_edge, 0, e.vw, e.vh, 0) ELSE <<>>)
    \o (IF e.bottom_edge < e.vh THEN as_rect(0, e.bottom_edge, e.vw, e.vh, 0) ELSE <<>>)

\* a right strip that starts bw inside the window
WindowRingInset(g, bw, color) ==
    as_rect(g.left - bw, g.top - bw, g.left, g.bottom + bw, color)
    \o as_rect(g.left - bw, g.top - bw, g.right + bw, g.top, color)
    \o as_rect(g.right - bw, g.top - bw, g.right + bw, g.bottom + bw, color)
    \o as_rect(g.left - bw, g.bottom, g.right + bw, g.bottom + bw, color)

\* lines 98-103: the four strips around one window
WindowRing(g, bw, color) ==
    as_rect(g.left - bw, g.top - bw, g.left, g.bottom + bw, color)
    \o as_rect(g.left - bw, g.top - bw, g.right + bw, g.top, color)
    \o as_rect(g.right, g.top - bw, g.right + bw, g.bottom + bw, color)
    \o as_rect(g.left - bw, g.bottom, g.right + bw, g.bottom + bw, color)

\* the two border colours exchanged
RingColorSwapped(i, active_window) == IF i = active_window THEN 2 ELSE 1

\* line 99
RingColor(i, active_window) == IF i = active_window THEN 1 ELSE 2

\* rings appended in front of those already emitted
RECURSIVE RingsFromReversed(_, _, _, _)
RingsFromReversed(windows, i, active_window, bw) ==
    IF i > Len(windows) THEN <<>>
    ELSE RingsFromReversed(windows, i + 1, active_window, bw)
            \o WindowRing(windows[i], bw, RingColor(i, active_window))

\* lines 97-103: the rings of windows[i..], in the order of the list
RECURSIVE RingsFrom(_, _, _, _)
RingsFrom(windows, i, active_window, bw) ==
    IF i > Len(windows) THEN <<>>
    ELSE WindowRing(windows[i], bw, RingColor(i, active_window))
            \o RingsFrom(windows, i + 1, active_window, bw)

\* rings that do not look at draw_window_borders
RingRectsIgnoreFlag(a, bw) ==
    IF bw > 0
    THEN RingsFrom(a.windows, 1, a.active_window, bw)
    ELSE <<>>

\* lines 95-103
RingRects(a, bw) ==
    IF a.draw_window_borders /\ bw > 0
    THEN RingsFrom(a.windows, 1, a.active_window, bw)
    ELSE <<>>

\* line 105
CountRects(list) == Len(list) \div 12

\* lines 106-108: a ctypes array of n zeros
ZeroFloats(n) == [i \in 1..n |-> FromInt(0)]
ZeroInts(n) == [i \in 1..n |-> 0]

\* lines 109-114: the values the loop leaves in self.starts and self.counts;
\* i runs over the 0-based indices of the list, idx = i // 12
\* starts that hold the index of the scalar, i, instead of the vertex, i // 3
FilledStartsScalarOffset(old, list) ==
    [k \in 1..Len(old) |->
        IF 12 * (k - 1) < Len(list) THEN 12 * (k - 1) ELSE old[k]]

FilledStarts(old, list) ==
    [k \in 1..Len(old) |->
        IF 12 * (k - 1) < Len(list) THEN (12 * (k - 1)) \div 3 ELSE old[k]]

FilledCounts(old, list) ==
    [k \in 1..Len(old) |-> IF 12 * (k - 1) < Len(list) THEN 4 ELSE old[k]]

FilledRects(old, list) ==
    [i \in 1..Len(old) |-> IF i <= Len(list) THEN list[i] ELSE old[i]]

\* a caller invokes borders(windows, active_window, draw_window_borders)
Call(argset) ==
    /\ pc_u = "idle"
    /\ \E a \in argset : args' = a
    /\ pc_u' = "l76"
    /\ UNCHANGED <<edges, l_rects, n_padding, completed>>
    /\ UNCHANGED <<env_vars, lock, flag_vars, frame_vars, render_vars, uploads, pending>>

\* lines 76-86
Edges ==
    /\ pc_u = "l76"
    /\ edges' = ComputeEdges(args.windows)
    /\ l_rects' = <<>>
    /\ pc_u' = "l87"
    /\ UNCHANGED <<args, n_padding, completed>>
    /\ UNCHANGED <<env_vars, lock, flag_vars, frame_vars, render_vars, uploads, pending>>

\* lines 87-94
Padding ==
    /\ pc_u = "l87"
    /\ l_rects' = l_rects \o PaddingRects(edges)
    /\ n_padding' = CountRects(l_rects')
    /\ pc_u' = "l95"
    /\ UNCHANGED <<args, edges, completed>>
    /\ UNCHANGED <<env_vars, lock, flag_vars, frame_vars, render_vars, uploads, pending>>

\* lines 95-103
Rings ==
    /\ pc_u = "l95"
    /\ l_rects' = l_rects \o RingRects(args, border_width)
    /\ pc_u' = "l104"
    /\ UNCHANGED <<args, edges, n_padding, completed>>
    /\ UNCHANGED <<env_vars, lock, flag_vars, frame_vars, render_vars, uploads, pending>>

\* line 104: with self.lock
UpdateAcquire ==
    /\ pc_u = "l104"
    /\ lock = "free"
    /\ lock' = "update"
    /\ pc_u' = "l105"
    /\ UNCHANGED <<args, edges, l_rects, n_padding, completed>>
    /\ UNCHANGED <<env_vars, flag_vars, frame_vars, render_vars, uploads, pending>>

\* an update that marks the object not ready while it rebuilds the arrays
StoreNumOfRectsClearsReady ==
    /\ pc_u = "l105"
    /\ num_of_rects' = CountRects(l_rects)
    /\ attrs' = attrs \cup {"num_of_rects"}
    /\ can_render' = FALSE
    /\ pc_u' = "l106"
    /\ UNCHANGED <<rects, starts, counts, is_dirty>>
    /\ UNCHANGED <<args, edges, l_rects, n_padding, completed>>
    /\ UNCHANGED <<env_vars, lock, render_vars, uploads, pending>>

\* line 105
StoreNumOfRects ==
    /\ pc_u = "l105"
    /\ num_of_rects' = CountRects(l_rects)
    /\ attrs' = attrs \cup {"num_of_rects"}
    /\ pc_u' = "l106"
    /\ UNCHANGED <<rects, starts, counts>>
    /\ UNCHANGED <<args, edges, l_rects, n_padding, completed>>
    /\ UNCHANGED <<env_vars, lock, flag_vars, render_vars, uploads, pending>>

\* an update that keeps the old array when it is large enough
AllocRectsReuses ==
    /\ pc_u = "l106"
    /\ rects' = IF Len(rects) >= Len(l_rects) THEN rects ELSE ZeroFloats(Len(l_rects))
    /\ attrs' = attrs \cup {"rects"}
    /\ pc_u' = "l107"
    /\ UNCHANGED <<num_of_rects, starts, counts>>
    /\ UNCHANGED <<args, edges, l_rects, n_padding, completed>>
    /\ UNCHANGED <<env_vars, lock, flag_vars, render_vars, uploads, pending>>

\* line 106
AllocRects ==
    /\ pc_u = "l106"
    /\ rects' = ZeroFloats(Len(l_rects))
    /\ attrs' = attrs \cup {"rects"}
    /\ pc_u' = "l107"
    /\ UNCHANGED <<num_of_rects, starts, counts>>
    /\ UNCHANGED <<args, edges, l_rects, n_padding, completed>>
    /\ UNCHANGED <<env_vars, lock, flag_vars, render_vars, uploads, pending>>

\* line 107
AllocStarts ==
    /\ pc_u = "l107"
    /\ starts' = ZeroInts(num_of_rects)
    /\ attrs' = attrs \cup {"starts"}
    /\ pc_u' = "l108"
    /\ UNCHANGED <<num_of_rects, rects, counts>>
    /\ UNCHANGED <<args, edges, l_rects, n_padding, completed>>
    /\ UNCHANGED <<env_vars, lock, flag_vars, render_vars, uploads, pending>>

\* line 108
AllocCounts ==
    /\ pc_u = "l108"
    /\ counts' = ZeroInts(num_of_rects)
    /\ attrs' = attrs \cup {"counts"}
    /\ pc_u' = "l109"
    /\ UNCHANGED <<num_of_rects, rects, starts>>
    /\ UNCHANGED <<args, edges, l_rects, n_padding, completed>>
    /\ UNCHANGED <<env_vars, lock, flag_vars, render_vars, uploads, pending>>

\* lines 109-114
FillArrays ==
    /\ pc_u = "l109"
    /\ rects' = FilledRects(rects, l_rects)
    /\ starts' = FilledStarts(starts, l_rects)
    /\ counts' = FilledCounts(counts, l_rects)
    /\ pc_u' = "l115"
    /\ UNCHANGED <<num_of_rects, attrs>>
    /\ UNCHANGED <<args, edges, l_rects, n_padding, completed>>
    /\ UNCHANGED <<env_vars, lock, flag_vars, render_vars, uploads, pending>>

\* an update that does not mark the frame dirty
SetDirtyForgets ==
    /\ pc_u = "l115"
    /\ pc_u' = "l116"
    /\ UNCHANGED <<is_dirty, can_render>>
    /\ UNCHANGED <<args, edges, l_rects, n_padding, completed>>
    /\ UNCHANGED <<env_vars, lock, frame_vars, render_vars, uploads, pending>>

\* line 115
SetDirty ==
    /\ pc_u = "l115"
    /\ is_dirty' = TRUE
    /\ pc_u' = "l116"
    /\ UNCHANGED can_render
    /\ UNCHANGED <<args, edges, l_rects, n_padding, completed>>
    /\ UNCHANGED <<env_vars, lock, frame_vars, render_vars, uploads, pending>>

\* line 116
SetCanRender ==
    /\ pc_u = "l116"
    /\ can_render' = TRUE
    /\ pc_u' = "exit"
    /\ UNCHANGED is_dirty
    /\ UNCHANGED <<args, edges, l_rects, n_padding, completed>>
    /\ UNCHANGED <<env_vars, lock, frame_vars, render_vars, uploads, pending>>

\* the end of the with block of line 104, and the return
UpdateRelease ==
    /\ pc_u = "exit"
    /\ lock' = "free"
    /\ completed' = l_rects
    /\ uploads' = 0
    /\ pending' = IF pending < 2 THEN pending + 1 ELSE pending
    /\ args' = NoArgs
    /\ edges' = NoEdges
    /\ l_rects' = <<>>
    /\ n_padding' = 0
    /\ pc_u' = "idle"
    /\ UNCHANGED <<env_vars, flag_vars, frame_vars, render_vars>>

InTraceOf(trace, op) == \E i \in 1..Len(trace) : trace[i] = op

(***************************************************************************)
(* Borders.render, lines 118-127.                                          *)
(***************************************************************************)
\* render without the lock
RenderAcquireNoLock ==
    /\ pc_r = "idle"
    /\ r_entry' = [is_dirty |-> is_dirty, can_render |-> can_render,
                    pending |-> pending]
    /\ r_trace' = <<>>
    /\ drawn' = NoDraw
    /\ pc_r' = "l120"
    /\ UNCHANGED <<gpu_rects, gpu_colors, lock>>
    /\ UNCHANGED <<env_vars, flag_vars, frame_vars, update_vars, uploads, pending>>

\* line 119: with self.lock
RenderAcquire ==
    /\ pc_r = "idle"
    /\ lock = "free"
    /\ lock' = "render"
    /\ r_entry' = [is_dirty |-> is_dirty, can_render |-> can_render,
                    pending |-> pending]
    /\ r_trace' = <<>>
    /\ drawn' = NoDraw
    /\ pc_r' = "l120"
    /\ UNCHANGED <<gpu_rects, gpu_colors>>
    /\ UNCHANGED <<env_vars, flag_vars, frame_vars, update_vars, uploads, pending>>

\* render without the test of can_render
RenderCheckNoReturn ==
    /\ pc_r = "l120"
    /\ pc_r' = "l123"
    /\ UNCHANGED <<r_entry, r_trace, gpu_rects, gpu_colors, drawn>>
    /\ UNCHANGED <<env_vars, lock, flag_vars, frame_vars, update_vars, uploads, pending>>

\* lines 120-122: return when nothing was ever computed, else bind the program
RenderCheck ==
    /\ pc_r = "l120"
    /\ pc_r' = IF ~can_render THEN "exit" ELSE "l123"
    /\ UNCHANGED <<r_entry, r_trace, gpu_rects, gpu_colors, drawn>>
    /\ UNCHANGED <<env_vars, lock, flag_vars, frame_vars, update_vars, uploads, pending>>

\* the draw call indented into the if of line 123
RenderTestDirtySkipsDraw ==
    /\ pc_r = "l123"
    /\ pc_r' = IF is_dirty THEN "l124" ELSE "exit"
    /\ UNCHANGED <<r_entry, r_trace, gpu_rects, gpu_colors, drawn>>
    /\ UNCHANGED <<env_vars, lock, flag_vars, frame_vars, update_vars, uploads, pending>>

\* line 123
RenderTestDirty ==
    /\ pc_r = "l123"
    /\ pc_r' = IF is_dirty THEN "l124" ELSE "l127"
    /\ UNCHANGED <<r_entry, r_trace, gpu_rects, gpu_colors, drawn>>
    /\ UNCHANGED <<env_vars, lock, flag_vars, frame_vars, update_vars, uploads, pending>>

\* line 124: program.send_data(self.rects)
RenderSendData ==
    /\ pc_r = "l124"
    /\ gpu_rects' = rects
    /\ r_trace' = Append(r_trace, "send_data")
    /\ uploads' = IF uploads < 2 THEN uploads + 1 ELSE uploads
    /\ pending' = 0
    /\ pc_r' = "l125"
    /\ UNCHANGED <<r_entry, gpu_colors, drawn>>
    /\ UNCHANGED <<env_vars, lock, flag_vars, frame_vars, update_vars>>

\* line 125: program.set_colors(self.color_buf)
RenderSetColors ==
    /\ pc_r = "l125"
    /\ gpu_colors' = color_buf
    /\ r_trace' = Append(r_trace, "set_colors")
    /\ pc_r' = "l126"
    /\ UNCHANGED <<r_entry, gpu_rects, drawn>>
    /\ UNCHANGED <<env_vars, lock, flag_vars, frame_vars, update_vars, uploads, pending>>

\* render that leaves is_dirty set
RenderClearDirtyForgets ==
    /\ pc_r = "l126"
    /\ pc_r' = "l127"
    /\ UNCHANGED <<is_dirty, can_render>>
    /\ UNCHANGED <<r_entry, r_trace, gpu_rects, gpu_colors, drawn>>
    /\ UNCHANGED <<env_vars, lock, frame_vars, update_vars, uploads, pending>>

\* line 126
RenderClearDirty ==
    /\ pc_r = "l126"
    /\ is_dirty' = FALSE
    /\ pc_r' = "l127"
    /\ UNCHANGED can_render
    /\ UNCHANGED <<r_entry, r_trace, gpu_rects, gpu_colors, drawn>>
    /\ UNCHANGED <<env_vars, lock, frame_vars, update_vars, uploads, pending>>

\* line 127: glMultiDrawArrays(GL_TRIANGLE_FAN, starts, counts, num_of_rects)
RenderDraw ==
    /\ pc_r = "l127"
    /\ drawn' = [starts |-> starts, counts |-> counts, n |-> num_of_rects]
    /\ r_trace' = Append(r_trace, "draw")
    /\ pc_r' = "exit"
    /\ UNCHANGED <<r_entry, gpu_rects, gpu_colors>>
    /\ UNCHANGED <<env_vars, lock, flag_vars, frame_vars, update_vars, uploads, pending>>

\* a render whose early return leaves the lock held
RenderReleaseAfterDrawOnly ==
    /\ pc_r = "exit"
    /\ lock' = IF InTraceOf(r_trace, "draw") THEN "free" ELSE lock
    /\ pc_r' = "idle"
    /\ UNCHANGED <<r_entry, r_trace, gpu_rects, gpu_colors, drawn>>
    /\ UNCHANGED <<env_vars, flag_vars, frame_vars, update_vars, uploads, pending>>

\* the end of the with block of line 119, and the return
RenderRelease ==
    /\ pc_r = "exit"
    /\ lock' = "free"
    /\ pc_r' = "idle"
    /\ UNCHANGED <<r_entry, r_trace, gpu_rects, gpu_colors, drawn>>
    /\ UNCHANGED <<env_vars, flag_vars, frame_vars, update_vars, uploads, pending>>

(***************************************************************************)
(* Specifications.                                                         *)
(***************************************************************************)
\* Borders.__init__, lines 62-73, with no call in progress
Constructed ==
    /\ viewport_size \in ViewportSizes
    /\ border_width \in 0..MaxBorderWidth
    /\ lock = "free"
    /\ is_dirty = FALSE
    /\ can_render = FALSE
    /\ attrs = {}
    /\ num_of_rects = 0
    /\ rects = <<>>
    /\ starts = <<>>
    /\ counts = <<>>
    /\ edges = NoEdges
    /\ l_rects = <<>>
    /\ n_padding = 0
    /\ completed = <<>>
    /\ pc_r = "idle"
    /\ r_entry = [is_dirty |-> FALSE, can_render |-> FALSE, pending |-> 0]
    /\ r_trace = <<>>
    /\ gpu_rects = <<>>
    /\ gpu_colors = <<>>
    /\ drawn = NoDraw
    /\ uploads = 0
    /\ pending = 0

Init ==
    /\ Constructed
    /\ pc_u = "idle"
    /\ args = NoArgs

UpdateSteps ==
    \/ Edges \/ Padding \/ Rings \/ UpdateAcquire \/ StoreNumOfRects
    \/ AllocRects \/ AllocStarts \/ AllocCounts \/ FillArrays
    \/ SetDirty \/ SetCanRender \/ UpdateRelease

RenderSteps ==
    \/ RenderAcquire \/ RenderCheck \/ RenderTestDirty \/ RenderSendData
    \/ RenderSetColors \/ RenderClearDirty \/ RenderDraw \/ RenderRelease

\* the layouts of the concurrent specification
ColumnArgs == CallArgs({ Columns(k) : k \in 0..MaxColumns })

CallColumns == Call(ColumnArgs)

\* one thread calls the Borders object, another calls render
Next == CallColumns \/ UpdateSteps \/ RenderSteps

Spec == Init /\ [][Next]_vars

\* the layout computation alone: one call on a new object, any arguments
LayoutArgs == CallArgs(WindowLists(MaxWindows, MaxCoord))

InitLayout ==
    /\ Constructed
    /\ pc_u = "l76"
    /\ args \in LayoutArgs

NextLayout == UpdateSteps

SpecLayout == InitLayout /\ [][NextLayout]_vars

(***************************************************************************)
(* Properties of the handoff between __call__ and render (Spec).           *)
(***************************************************************************)
InTrace(op) == \E i \in 1..Len(r_trace) : r_trace[i] = op

\* the stored fields are those of one update
Coherent ==
    /\ attrs = Attributes
    /\ Len(rects) = 12 * num_of_rects
    /\ Len(starts) = num_of_rects
    /\ Len(counts) = num_of_rects

\* C1: whenever render is at its upload or its draw, the stored fields it
\* reads are those of one update (len(rects) = 12 * num_of_rects, len(starts)
\* = len(counts) = num_of_rects), and so is what it handed to the GPU.
C1_NoTornFrame ==
    /\ pc_r \in {"l124", "l125", "l126", "l127"} => Coherent
    /\ (pc_r = "exit" /\ InTrace("draw")) =>
          /\ Len(drawn.starts) = drawn.n
          /\ Len(drawn.counts) = drawn.n
          /\ InTrace("send_data") => Len(gpu_rects) = 12 * drawn.n

\* a render has uploaded and drawn a frame while an update waits for the lock
C1_Witness ==
    /\ pc_r = "exit" /\ InTrace("send_data") /\ InTrace("draw")
    /\ drawn.n > 0
    /\ pc_u = "l104" /\ CountRects(l_rects) # drawn.n

\* C2: a render before any update has completed does nothing: no upload, no
\* palette, no draw, is_dirty and can_render as they were, and the lock is
\* released when it returns.
C2_NotReadyNoOp ==
    /\ (pc_r = "exit" /\ ~r_entry.can_render) =>
          /\ r_trace = <<>>
          /\ drawn = NoDraw
          /\ gpu_rects = <<>>
          /\ gpu_colors = <<>>
          /\ is_dirty = r_entry.is_dirty
          /\ can_render = r_entry.can_render
    /\ pc_r = "idle" => lock # "render"

\* a render returned early and gave the lock back; an update then took it
C2_Witness ==
    /\ pc_r = "idle" /\ ~r_entry.can_render /\ r_trace = <<>>
    /\ ~can_render /\ lock = "update"

\* C3: can_render is false at first, is true when an update returns, and
\* never goes back to false.
C3_ReadyOneWay ==
    /\ ~can_render
    /\ [][/\ can_render => can_render'
          /\ (pc_u = "exit" /\ pc_u' = "idle") => can_render'
          /\ (completed = <<>> /\ attrs # Attributes) => ~can_render]_vars

\* a second update rebuilds the arrays while the object stays ready
C3_Witness ==
    /\ can_render /\ pc_u = "l109" /\ pending > 0
    /\ pc_r = "idle" /\ InTrace("draw")

\* C4: an update leaves is_dirty true; a render of a ready object uploads
\* the vertex data and the palette exactly when is_dirty was true, and
\* is_dirty is false when it returns; so between two updates at most one
\* upload happens.
C4_UploadIffDirty ==
    /\ pc_u = "exit" => is_dirty
    /\ (pc_r = "exit" /\ r_entry.can_render) =>
          /\ ~is_dirty
          /\ InTrace("send_data") <=> r_entry.is_dirty
          /\ InTrace("set_colors") <=> r_entry.is_dirty
          /\ r_entry.is_dirty => (gpu_rects = rects /\ gpu_colors = color_buf)
    /\ uploads <= 1

\* a second render after the same update: it draws and uploads nothing
C4_Witness ==
    /\ pc_r = "exit" /\ r_entry.can_render /\ ~r_entry.is_dirty
    /\ r_trace = <<"draw">> /\ uploads = 1 /\ gpu_rects = rects /\ rects # <<>>

\* C5: every render of a ready object issues exactly one draw call, after
\* the upload when there is one, and before the lock is released.
C5_OneDrawPerRender ==
    /\ (pc_r = "exit" /\ r_entry.can_render) =>
          /\ r_trace \in { <<"draw">>, <<"send_data", "set_colors", "draw">> }
          /\ drawn.n = num_of_rects
          /\ lock = "render"
    /\ pc_r \in {"l120", "l123", "l124", "l125", "l126", "l127"} => ~InTrace("draw")

\* a render that found the object dirty: upload, palette, then one draw
C5_Witness ==
    /\ pc_r = "exit" /\ r_entry.can_render /\ r_entry.is_dirty
    /\ r_trace = <<"send_data", "set_colors", "draw">>
    /\ lock = "render" /\ drawn.n > 0

\* C6: update replaces the stored frame and queues nothing: a render that
\* uploads sends exactly the list of the last update that returned, and
\* draws with that list's offsets and counts.
C6_LastUpdateWins ==
    (pc_r = "exit" /\ InTrace("send_data")) =>
        /\ gpu_rects = completed
        /\ drawn.n = Len(completed) \div 12
        /\ drawn.starts = [k \in 1..drawn.n |-> 4 * (k - 1)]
        /\ drawn.counts = [k \in 1..drawn.n |-> 4]

\* two updates returned before this render, the second with a shorter frame
C6_Witness ==
    /\ pc_r = "exit" /\ InTrace("send_data") /\ r_entry.pending = 2
    /\ gpu_rects = completed /\ Len(completed) = 12

(***************************************************************************)
(* Properties of the frame that one call stores (SpecLayout).              *)
(***************************************************************************)
\* the call has stored its frame and still holds its arguments and its
\* locals; edges.vw and edges.vh are the viewport it read at line 76
Stored == pc_u = "exit"

\* the colour index of the v-th vertex (1..4) of the k-th rectangle unit
UnitColor(data, k, v) == data[12 * (k - 1) + 3 * v]

\* rectangle units of data whose first vertex has a colour index in cs
UnitsColoured(data, cs) ==
    Cardinality({ k \in 1..(Len(data) \div 12) :
                    \E c \in cs : UnitColor(data, k, 1) = FromInt(c) })

\* C7: in every stored frame the number of scalars is a multiple of 12, the
\* rectangle count is that number divided by 12, there is one descriptor per
\* rectangle and every descriptor's vertex count is 4.
C7_FrameShape ==
    (Stored \/ (can_render /\ lock # "update")) =>
        /\ Len(rects) % 12 = 0
        /\ 12 * num_of_rects = Len(rects)
        /\ Len(starts) = num_of_rects
        /\ Len(counts) = num_of_rects
        /\ \A k \in 1..Len(counts) : counts[k] = 4

\* a frame of padding and of the rings of two windows
C7_Witness ==
    /\ Stored /\ Len(args.windows) = 2
    /\ n_padding >= 2 /\ num_of_rects = n_padding + 8
    /\ Len(rects) = 12 * num_of_rects

C8_Case ==
    /\ Stored
    /\ args.windows = <<>>
    /\ args.draw_window_borders
    /\ border_width > 0

\* C8 as stated: with no windows the frame is one rectangle of colour 0
\* that covers the viewport from (0, 0) to (vw, vh).
C8_EmptyListOneRect ==
    C8_Case =>
        /\ num_of_rects = 1
        /\ Len(rects) = 12
        /\ rects = as_rect(0, 0, edges.vw, edges.vh, 0)

\* C8, amended: with no windows (draw_window_borders true, border width
\* positive) the bounding box is the whole viewport, no padding test holds
\* and the frame has no rectangle at all.
C8_EmptyListNoRect ==
    C8_Case =>
        /\ num_of_rects = 0
        /\ rects = <<>>
        /\ starts = <<>>
        /\ counts = <<>>

\* a call with no windows has stored its frame
C8_Witness == C8_Case /\ is_dirty /\ can_render /\ l_rects = <<>>

C9_Case ==
    /\ Stored
    /\ args.windows = << [left |-> 0, top |-> 0, right |-> edges.vw,
                          bottom |-> edges.vh] >>
    /\ args.active_window = 1
    /\ args.draw_window_borders
    /\ border_width > 0

\* C9: one window that is exactly the viewport and is the active window,
\* borders drawn with a positive width: no padding rectangle, exactly 4
\* ring rectangles, every vertex of colour index 1.
C9_FullWindowActive ==
    C9_Case =>
        /\ n_padding = 0
        /\ num_of_rects = 4
        /\ Len(rects) = 48
        /\ \A k \in 1..4 : \A v \in 1..4 : UnitColor(rects, k, v) = FromInt(1)

\* the frame of the window that fills the viewport
C9_Witness == C9_Case /\ num_of_rects = 4 /\ UnitsColoured(rects, {1}) = 4

\* the padding tests of lines 87-94 that hold for a list of windows
PaddingTests(windows) ==
    LET W == { windows[i] : i \in 1..Len(windows) }
    IN  IF W = {} THEN {}
        ELSE { t \in {"left", "top", "right", "bottom"} :
                 \/ t = "left" /\ \A w \in W : w.left > 0
                 \/ t = "top" /\ \A w \in W : w.top > 0
                 \/ t = "right" /\ \A w \in W : w.right < edges.vw
                 \/ t = "bottom" /\ \A w \in W : w.bottom < edges.vh }

\* C10: there are 4 ring rectangles per window when draw_window_borders is
\* true and the border width is positive, and none otherwise; the padding
\* rectangles are those of the windows and the viewport in every case.
C10_RingCount ==
    Stored =>
        /\ UnitsColoured(rects, {1, 2}) =
              IF args.draw_window_borders /\ border_width > 0
              THEN 4 * Len(args.windows) ELSE 0
        /\ UnitsColoured(rects, {0}) = Cardinality(PaddingTests(args.windows))
        /\ num_of_rects = UnitsColoured(rects, {0}) + UnitsColoured(rects, {1, 2})
        /\ SubSeq(rects, 1, 12 * n_padding) = PaddingRects(edges)
        /\ \A k \in 1..num_of_rects :
              UnitColor(rects, k, 1) = FromInt(0) <=> k <= n_padding

\* two windows and a positive border width, but borders not drawn
C10_Witness ==
    /\ Stored /\ Len(args.windows) = 2 /\ ~args.draw_window_borders
    /\ border_width > 0 /\ n_padding > 0 /\ num_of_rects = n_padding

(***************************************************************************)
(* The stored frame read back in device pixels.                            *)
(***************************************************************************)
\* the device coordinate that to_opengl maps to the clip coordinate c
DeviceX(c) == ((c[1] + c[2]) * viewport_size.width) \div (2 * c[2])
DeviceY(c) == ((c[2] - c[1]) * viewport_size.height) \div (2 * c[2])

\* the v-th vertex (1..4) of the k-th rectangle unit of data
UnitVertex(data, k, v) ==
    LET o == 12 * (k - 1) + 3 * (v - 1)
    IN  [x |-> data[o + 1], y |-> data[o + 2], c |-> data[o + 3]]

\* the rectangle that the k-th unit of data spans, in device pixels
UnitRect(data, k) ==
    [left   |-> DeviceX(UnitVertex(data, k, 3).x),
     top    |-> DeviceY(UnitVertex(data, k, 1).y),
     right  |-> DeviceX(UnitVertex(data, k, 1).x),
     bottom |-> DeviceY(UnitVertex(data, k, 2).y)]

Rect(l, t, r, b) == [left |-> l, top |-> t, right |-> r, bottom |-> b]

\* the padding rectangles of a frame, as the layout algorithm lists them
ExpectedPadding ==
    LET W == { args.windows[i] : i \in 1..Len(args.windows) }
        Holds(t) == t \in PaddingTests(args.windows)
        PadRect(t) ==
            CASE t = "left"   -> Rect(0, 0, Min({ w.left : w \in W }), edges.vh)
              [] t = "top"    -> Rect(0, 0, edges.vw, Min({ w.top : w \in W }))
              [] t = "right"  -> Rect(Max({ w.right : w \in W }), 0, edges.vw, edges.vh)
              [] t = "bottom" -> Rect(0, Max({ w.bottom : w \in W }), edges.vw, edges.vh)
        order == SelectSeq(<<"left", "top", "right", "bottom">>, Holds)
    IN  [k \in 1..Len(order) |-> PadRect(order[k])]

\* the strips of the ring of width bw around g: left, top, right, bottom
ExpectedRing(g, bw) ==
    << Rect(g.left - bw, g.top - bw, g.left, g.bottom + bw),
       Rect(g.left - bw, g.top - bw, g.right + bw, g.top),
       Rect(g.right, g.top - bw, g.right + bw, g.bottom + bw),
       Rect(g.left - bw, g.bottom, g.right + bw, g.bottom + bw) >>

RingsDrawn == args.draw_window_borders /\ border_width > 0

\* the ring rectangles of a frame, window by window
ExpectedRings ==
    IF RingsDrawn
    THEN [k \in 1..(4 * Len(args.windows)) |->
            ExpectedRing(args.windows[((k - 1) \div 4) + 1], border_width)[((k - 1) % 4) + 1]]
    ELSE <<>>

\* C11: a frame lists the padding rectangles whose tests hold, in the order
\* left, top, right, bottom, and then, window by window in the order of the
\* list, the strips left, top, right, bottom of each window.
C11_UnitOrder ==
    Stored =>
        LET expected == ExpectedPadding \o ExpectedRings
        IN  /\ num_of_rects = Len(expected)
            /\ \A k \in 1..num_of_rects :
                  /\ UnitRect(rects, k) = expected[k]
                  /\ UnitColor(rects, k, 1) = FromInt(0) <=> k <= Len(ExpectedPadding)

\* two padding rectangles, then the rings of two different windows
C11_Witness ==
    /\ Stored /\ RingsDrawn /\ Len(args.windows) = 2
    /\ Len(ExpectedPadding) >= 2
    /\ num_of_rects = Len(ExpectedPadding) + 8
    /\ UnitRect(rects, num_of_rects - 7) # UnitRect(rects, num_of_rects - 3)

\* one call with a single window, which may have no width or no height
RingArgs ==
    CallArgs({ <<g>> : g \in { h \in Geometries(MaxCoord) :
                                 h.left <= h.right /\ h.top <= h.bottom } })

InitRing ==
    /\ Constructed
    /\ pc_u = "l76"
    /\ args \in RingArgs

SpecRing == InitRing /\ [][NextLayout]_vars

\* the pixels of a rectangle: pixel <<x, y>> spans (x, y)-(x + 1, y + 1)
Pixels(r) == (r.left..(r.right - 1)) \X (r.top..(r.bottom - 1))

\* the pixels of the four stored strips of the i-th window
StripPixels(i) ==
    UNION { Pixels(UnitRect(rects, n_padding + 4 * (i - 1) + s)) : s \in 1..4 }

\* C12: the four strips of a window cover exactly the rectangle
\* (left-bw, top-bw)-(right+bw, bottom+bw) without the window's own
\* rectangle: no strip reaches into the window, and the ring has no hole.
C12_RingAroundWindow ==
    (Stored /\ RingsDrawn) =>
        \A i \in 1..Len(args.windows) :
            LET g == args.windows[i]
                outer == Rect(g.left - border_width, g.top - border_width,
                              g.right + border_width, g.bottom + border_width)
            IN  /\ StripPixels(i) = Pixels(outer) \ Pixels(g)
                /\ StripPixels(i) \cap Pixels(g) = {}

\* the ring of a window of 2 x 1 pixels: 3 x 4 pixels less the window's 2
C12_Witness ==
    /\ Stored /\ RingsDrawn /\ Len(args.windows) = 1
    /\ Cardinality(Pixels(args.windows[1])) = 2
    /\ Cardinality(StripPixels(1)) = 10

\* the bounding box of the windows of the call
BoundingBox ==
    LET W == { args.windows[i] : i \in 1..Len(args.windows) }
    IN  Rect(Min({ w.left : w \in W }), Min({ w.top : w \in W }),
             Max({ w.right : w \in W }), Max({ w.bottom : w \in W }))

C13_Case ==
    /\ Stored
    /\ args.windows # <<>>
    /\ 0 <= BoundingBox.left /\ BoundingBox.right <= edges.vw
    /\ 0 <= BoundingBox.top /\ BoundingBox.bottom <= edges.vh

\* the pixels of the stored padding rectangles
PaddingPixels == UNION { Pixels(UnitRect(rects, k)) : k \in 1..n_padding }

\* C13: when the bounding box of the windows lies inside the viewport, the
\* padding rectangles, all of colour 0, cover the viewport outside the
\* bounding box up to (vw, vh) and nothing inside it, and there is one of
\* them for each of the four tests that holds.
C13_PaddingCoversOutside ==
    C13_Case =>
        /\ PaddingPixels = Pixels(Rect(0, 0, edges.vw, edges.vh)) \ Pixels(BoundingBox)
        /\ PaddingPixels \cap Pixels(BoundingBox) = {}
        /\ n_padding = Cardinality(PaddingTests(args.windows))
        /\ \A k \in 1..n_padding : \A v \in 1..4 :
              UnitColor(rects, k, v) = FromInt(0)

\* two windows whose bounding box leaves padding on the left and the right
C13_Witness ==
    /\ C13_Case /\ Len(args.windows) = 2
    /\ PaddingTests(args.windows) = {"left", "right"}
    /\ n_padding = 2
    /\ PaddingPixels # {}

\* C14: the four ring rectangles of the active window have colour index 1
\* and those of every other window 2; when active_window is None or not in
\* the list every ring rectangle has colour 2, so at most one ring is 1.
C14_RingColours ==
    (Stored /\ RingsDrawn) =>
        /\ \A i \in 1..Len(args.windows) : \A s \in 1..4 : \A v \in 1..4 :
              UnitColor(rects, n_padding + 4 * (i - 1) + s, v) =
                  FromInt(IF i = args.active_window THEN 1 ELSE 2)
        /\ args.active_window \notin 1..Len(args.windows) =>
              UnitsColoured(rects, {1}) = 0
        /\ UnitsColoured(rects, {1}) <= 4

\* two windows, the second one active: one ring of each colour
C14_Witness ==
    /\ Stored /\ RingsDrawn /\ Len(args.windows) = 2 /\ args.active_window = 2
    /\ UnitsColoured(rects, {1}) = 4 /\ UnitsColoured(rects, {2}) = 4
    /\ UnitColor(rects, num_of_rects, 4) = FromInt(1)

\* C15: every rectangle is stored as exactly 4 vertices, (right, top),
\* (right, bottom), (left, bottom), (left, top), each the triple (clip x,
\* clip y, colour): consecutive vertices share a coordinate and the four
\* carry one colour index.
C15_VertexOrder ==
    Stored =>
        LET expected == ExpectedPadding \o ExpectedRings
            V(k, v) == UnitVertex(rects, k, v)
            P(k, v) == << V(k, v).x, V(k, v).y >>
        IN  /\ Len(rects) = 12 * Len(expected)
            /\ \A k \in 1..Len(expected) :
                  /\ P(k, 1) = to_opengl(expected[k].right, expected[k].top)
                  /\ P(k, 2) = to_opengl(expected[k].right, expected[k].bottom)
                  /\ P(k, 3) = to_opengl(expected[k].left, expected[k].bottom)
                  /\ P(k, 4) = to_opengl(expected[k].left, expected[k].top)
                  /\ V(k, 1).x = V(k, 2).x /\ V(k, 2).y = V(k, 3).y
                  /\ V(k, 3).x = V(k, 4).x /\ V(k, 4).y = V(k, 1).y
                  /\ \A v \in 1..4 : V(k, v).c = V(k, 1).c
                  /\ V(k, 1).c \in { FromInt(0), FromInt(1), FromInt(2) }

\* a frame whose last unit is a strip of colour 2 with four different corners
C15_Witness ==
    /\ Stored /\ num_of_rects >= 5
    /\ UnitVertex(rects, num_of_rects, 1).c = FromInt(2)
    /\ Cardinality({ << UnitVertex(rects, num_of_rects, v).x,
                        UnitVertex(rects, num_of_rects, v).y >> : v \in 1..4 }) = 4

RatLess(p, q) == p[1] * q[2] < q[1] * p[2]

\* the device point of the v-th vertex of rectangle r
Corner(r, v) ==
    CASE v = 1 -> << r.right, r.top >>
      [] v = 2 -> << r.right, r.bottom >>
      [] v = 3 -> << r.left, r.bottom >>
      [] v = 4 -> << r.left, r.top >>

\* C16: to_opengl maps x to -1 + 2x/width and y to 1 - 2y/height: (0, 0)
\* goes to (-1, 1) and (width, height) to (1, -1), points of the viewport
\* stay within [-1, 1] on both axes, x is increasing and y is decreasing.
\* Stated of the corner points of every rectangle of the stored frame.
C16_ClipMapping ==
    LET w == viewport_size.width
        h == viewport_size.height
    IN  /\ to_opengl(0, 0) = << FromInt(-1), FromInt(1) >>
        /\ to_opengl(w, h) = << FromInt(1), FromInt(-1) >>
        /\ Stored =>
              LET expected == ExpectedPadding \o ExpectedRings
              IN  \A k \in 1..Len(expected) : \A v \in 1..4 :
                    LET x == Corner(expected[k], v)[1]
                        y == Corner(expected[k], v)[2]
                        u == UnitVertex(rects, k, v)
                    IN  /\ u.x[2] > 0 /\ u.y[2] > 0
                        /\ u.x[1] * w = (2 * x - w) * u.x[2]
                        /\ u.y[1] * h = (h - 2 * y) * u.y[2]
                        /\ (0 <= x /\ x <= w) =>
                              ~RatLess(u.x, FromInt(-1)) /\ ~RatLess(FromInt(1), u.x)
                        /\ (0 <= y /\ y <= h) =>
                              ~RatLess(u.y, FromInt(-1)) /\ ~RatLess(FromInt(1), u.y)
                        /\ RatLess(u.x, to_opengl(x + 1, y)[1])
                        /\ RatLess(to_opengl(x, y + 1)[2], u.y)

\* a frame with the corners (0, 0) and (width, height) of the viewport
C16_Witness ==
    /\ Stored /\ viewport_size.width # viewport_size.height
    /\ \E k \in 1..num_of_rects :
          /\ UnitVertex(rects, k, 4).x = FromInt(-1)
          /\ UnitVertex(rects, k, 4).y = FromInt(1)
    /\ \E k \in 1..num_of_rects :
          /\ UnitVertex(rects, k, 2).x = FromInt(1)
          /\ UnitVertex(rects, k, 2).y = FromInt(-1)

\* the vertices (0-based) that the k-th draw descriptor of the frame names
DescriptorRange(k) == starts[k]..(starts[k] + counts[k] - 1)

\* C17: the descriptor of rectangle k (0-based) starts at vertex 4k and has
\* 4 vertices: the ranges are disjoint, lie inside the vertex stream of
\* len(rects) / 3 vertices, and every vertex is in exactly one of them.
C17_Descriptors ==
    Stored =>
        /\ \A k \in 1..num_of_rects :
              /\ starts[k] = 4 * (k - 1)
              /\ counts[k] = 4
              /\ starts[k] + counts[k] <= Len(rects) \div 3
        /\ \A j \in 1..num_of_rects : \A k \in 1..num_of_rects :
              j # k => DescriptorRange(j) \cap DescriptorRange(k) = {}
        /\ \A n \in 0..((Len(rects) \div 3) - 1) :
              Cardinality({ k \in 1..num_of_rects : n \in DescriptorRange(k) }) = 1

\* a frame of 10 rectangles: the last descriptor is (36, 4) of 40 vertices
C17_Witness ==
    /\ Stored /\ num_of_rects = 10 /\ Len(rects) = 120
    /\ starts[10] = 36 /\ counts[10] = 4

\* C18: at every draw call the vertex buffer on the GPU holds the stored
\* rects, the ones whose starts, counts and num_of_rects the call passes;
\* and whenever the lock is free, the object ready and not dirty, the GPU
\* copy equals the stored rects.
C18_GpuMatchesStored ==
    /\ pc_r = "l127" => gpu_rects = rects
    /\ (pc_r = "exit" /\ InTrace("draw")) =>
          /\ gpu_rects = rects
          /\ drawn = [starts |-> starts, counts |-> counts, n |-> num_of_rects]
          /\ Len(gpu_rects) = 12 * drawn.n
    /\ (lock = "free" /\ can_render /\ ~is_dirty) => gpu_rects = rects

\* a draw without upload, from the copy that an earlier render sent, while
\* the next update waits for the lock with a frame of another size
C18_Witness ==
    /\ pc_r = "exit" /\ r_trace = <<"draw">> /\ drawn.n > 0
    /\ gpu_rects = rects /\ Len(gpu_rects) = 12 * drawn.n
    /\ pc_u = "l104" /\ Len(l_rects) # Len(rects)

\* Both threads are scheduled fairly: a thread that can take its next step
\* takes it, and a thread that waits for the lock gets it when the lock is
\* free again and again.  No fairness on Call: the caller may stop calling.
Fairness ==
    /\ WF_vars(Edges \/ Padding \/ Rings \/ StoreNumOfRects \/ AllocRects
               \/ AllocStarts \/ AllocCounts \/ FillArrays \/ SetDirty
               \/ SetCanRender \/ UpdateRelease)
    /\ SF_vars(UpdateAcquire)
    /\ WF_vars(RenderCheck \/ RenderTestDirty \/ RenderSendData \/ RenderSetColors
               \/ RenderClearDirty \/ RenderDraw \/ RenderRelease)
    /\ SF_vars(RenderAcquire)

\* the calls of the fair specification: columns with borders, none active
FairArgs ==
    { a \in ColumnArgs : a.active_window = 0 /\ a.draw_window_borders }

CallFair == Call(FairArgs)

NextFair == CallFair \/ UpdateSteps \/ RenderSteps

InitFair ==
    /\ Init
    /\ viewport_size.width = MaxCoord + 1
    /\ border_width = MaxBorderWidth

SpecFair == InitFair /\ [][NextFair]_vars /\ Fairness

Resize ==
    /\ viewport_size' \in ViewportSizes \ {viewport_size}
    /\ UNCHANGED <<border_width, lock, flag_vars, frame_vars, update_vars,
                   render_vars, uploads, pending>>

\* the layouts of at most one window
ResizeArgs == CallArgs(WindowLists(1, MaxCoord))

InitResize ==
    /\ Constructed
    /\ pc_u = "l76"
    /\ args \in ResizeArgs

NextResize == UpdateSteps \/ Resize

\* one call on a new object, with resizes at any point of it
SpecResize == InitResize /\ [][NextResize]_vars

\* C20: a frame is computed against one snapshot of the viewport size. The
\* width and height read at line 76, which decide and size the padding
\* rectangles, are the width and height that convert every vertex of the
\* stored frame to clip space.
C20_OneSnapshot ==
    Stored =>
        LET expected == ExpectedPadding \o ExpectedRings
        IN  /\ num_of_rects = Len(expected)
            /\ \A k \in 1..Len(expected) : \A v \in 1..4 :
                  LET p == Corner(expected[k], v)
                      u == UnitVertex(rects, k, v)
                  IN  /\ u.x = RatAdd(FromInt(-1), Rat(2 * p[1], edges.vw))
                      /\ u.y = RatSub(FromInt(1), Rat(2 * p[2], edges.vh))

====
